---- MODULE Spec2Model ----
(***************************************************************************)
(* Model of the AI-powered ad campaign creator: the Meta Ads client        *)
(* (src/ads_api/meta_ads.py, src/ads_api/utils.py), the content generator  *)
(* (src/llm_handler.py) and the Streamlit session handlers (src/main.py).  *)
(*                                                                         *)
(* Every HTTP exchange is a request the code builds plus a response the    *)
(* platform chooses; the response is an input of the operator that models  *)
(* the client function, drawn from a small set by the action that calls    *)
(* it.  Strings are Python strings; messages are built by concatenation    *)
(* exactly as the f-strings of the source build them.                      *)
(***************************************************************************)
EXTENDS Integers, Sequences, FiniteSets, TLC

VARIABLES
    campaign_created,   \* st.session_state.campaign_created
    campaign_details,   \* st.session_state.campaign_details (a dict)
    generated_content,  \* st.session_state.generated_content (a dict)
    pc,                 \* position inside the "Create Campaign on Meta" handler
    run,                \* the handler's inputs and locals of the current run
    reqs,               \* HTTP exchanges of the handler run in progress or last finished, in order
    ui,                 \* what the handler last surfaced to the user
    call                \* outcome of the last direct client call (ClientSpec)

vars == <<campaign_created, campaign_details, generated_content, pc, run, reqs, ui, call>>

-----------------------------------------------------------------------------
(* Bounds of the model *)

\* number of distinct identifiers the platform may hand out
MaxId == 2
\* longest listing the account / page discovery endpoints return
MaxList == 2

-----------------------------------------------------------------------------
(* Python values *)

\* Python's None
None == "<None>"
\* marks a key that is not present in a dict / JSON object
Absent == "<absent>"

\* dict.get(key, default)
Get(v, default) == IF v = Absent THEN default ELSE v
\* dict.get(key)
GetOrNone(v) == Get(v, None)
\* truth value of an Optional[str]
Truthy(v) == v \notin {None, Absent, ""}

EmptyDict == [k \in {} |-> ""]

\* substring test:  t in s
Contains(s, t) == \E i \in 1..(Len(s) - Len(t) + 1) : SubSeq(s, i, i + Len(t) - 1) = t
\* s.startswith(t)
StartsWith(s, t) == Len(s) >= Len(t) /\ SubSeq(s, 1, Len(t)) = t

IdPool == <<"120001", "120002", "120003", "120004">>
Ids == {IdPool[i] : i \in 1..MaxId}

-----------------------------------------------------------------------------
(* Python floats: IEEE 754 binary64, round to nearest, ties to even.  A      *)
(* significand is a sequence of bits, most significant first; a positive     *)
(* float is [zero |-> FALSE, mant |-> 53 bits starting with 1, exp |-> e],   *)
(* standing for the number  mant * 2^e.                                      *)

\* bits of the significand of a binary64
Precision == 53

RECURSIVE NatToBits(_)
\* binary digits of n, most significant first; no digits for 0
NatToBits(n) == IF n = 0 THEN <<>> ELSE NatToBits(n \div 2) \o <<n % 2>>

RECURSIVE BitsToNat(_)
BitsToNat(bits) ==
    IF bits = <<>> THEN 0
    ELSE 2 * BitsToNat(SubSeq(bits, 1, Len(bits) - 1)) + bits[Len(bits)]

RECURSIVE Pow2(_)
Pow2(n) == IF n = 0 THEN 1 ELSE 2 * Pow2(n - 1)

\* the n-digit binary numeral of v < 2^n, zeros in front
Numeral(v, n) == [i \in 1..(n - Len(NatToBits(v))) |-> 0] \o NatToBits(v)

\* digits handled in one step of the long multiplication and long division
Step == 8

RECURSIVE MulAdd(_, _, _)
\* bits * k + carry, by long multiplication from the least significant end,
\* Step digits at a time
MulAdd(bits, k, carry) ==
    IF bits = <<>> THEN NatToBits(carry)
    ELSE LET n == Len(bits)
             m == IF n < Step THEN n ELSE Step
             t == k * BitsToNat(SubSeq(bits, n - m + 1, n)) + carry
         IN MulAdd(SubSeq(bits, 1, n - m), k, t \div Pow2(m)) \o Numeral(t % Pow2(m), m)

FloatZero == [zero |-> TRUE, mant |-> <<>>, exp |-> 0]

\* Rounding of the number  (bits + tail) * 2^e  to a float, where bits starts
\* with 1 and has more than Precision digits and sticky says that a non-zero
\* tail smaller than one unit of the last digit follows: round to nearest,
\* ties to even.
RoundToFloat(bits, sticky, e) ==
    LET keep == SubSeq(bits, 1, Precision)
        rest == SubSeq(bits, Precision + 1, Len(bits))
        half == rest[1] = 1
        below == sticky \/ \E i \in 2..Len(rest) : rest[i] = 1
        up == half /\ (below \/ keep[Precision] = 1)
        rounded == MulAdd(keep, 1, IF up THEN 1 ELSE 0)
    IN IF Len(rounded) > Precision
       THEN [zero |-> FALSE, mant |-> SubSeq(rounded, 1, Precision), exp |-> e + Len(rest) + 1]
       ELSE [zero |-> FALSE, mant |-> rounded, exp |-> e + Len(rest)]

RECURSIVE FracBits(_, _)
\* the first n binary digits of the fraction r / 100, by long division, Step
\* digits at a time
FracBits(r, n) ==
    IF n = 0 THEN <<>>
    ELSE LET m == IF n < Step THEN n ELSE Step
         IN Numeral((r * Pow2(m)) \div 100, m) \o FracBits((r * Pow2(m)) % 100, n - m)

RECURSIVE FracRem(_, _)
\* what is left of r / 100 after n binary digits, in hundredths of the last digit
FracRem(r, n) ==
    IF n = 0 THEN r
    ELSE LET m == IF n < Step THEN n ELSE Step
         IN FracRem((r * Pow2(m)) % 100, n - m)

RECURSIVE LeadingZeros(_)
\* zero digits before the first 1 in the binary expansion of r / 100, 0 < r < 100
LeadingZeros(r) == IF 2 * r >= 100 THEN 0 ELSE 1 + LeadingZeros(2 * r)

\* The float a decimal literal with two fractional digits denotes: the
\* binary64 nearest to h / 100 (float("1.15") is FloatOfHundredths(115)).
FloatOfHundredths(h) ==
    LET whole == NatToBits(h \div 100)
        r == h % 100
        n == (Precision + 1) - Len(whole)
        z == LeadingZeros(r)
    IN IF h = 0 THEN FloatZero
       ELSE IF whole # <<>>
       THEN RoundToFloat(whole \o FracBits(r, n), FracRem(r, n) # 0, 0 - n)
       ELSE RoundToFloat(FracBits(FracRem(r, z), Precision + 1),
                         FracRem(r, z + Precision + 1) # 0, 0 - (z + Precision + 1))

\* x * 100 in float arithmetic: the exact product, rounded
FloatTimes100(x) ==
    IF x.zero THEN FloatZero
    ELSE RoundToFloat(MulAdd(x.mant, 100, 0), FALSE, x.exp)

\* int(x) for x >= 0: the fraction is dropped
IntOfFloat(x) ==
    IF x.zero THEN 0
    ELSE IF x.exp >= 0 THEN BitsToNat(x.mant) * Pow2(x.exp)
    ELSE IF Precision + x.exp <= 0 THEN 0
    ELSE BitsToNat(SubSeq(x.mant, 1, Precision + x.exp))

-----------------------------------------------------------------------------
(* The platform's responses *)

NoError == [kind |-> "absent", error_user_msg |-> Absent]
\* "error": {..., "error_user_msg": m}  (m = Absent: the object lacks the field)
ErrObj(m) == [kind |-> "object", error_user_msg |-> m]
\* "error": "some text"  (the error member is not an object)
ErrStr == [kind |-> "string", error_user_msg |-> Absent]

UserMsgs == {"Budget too low"}

\* a body that is a JSON object
JsonBody(id, err) ==
    [json |-> TRUE, id |-> id, error |-> err, name |-> Absent,
     has_data |-> FALSE, data |-> <<>>]
\* a body that is not JSON (an HTML error page, an empty body)
NotJson ==
    [json |-> FALSE, id |-> Absent, error |-> NoError, name |-> Absent,
     has_data |-> FALSE, data |-> <<>>]

\* no response at all: requests raised ConnectionError / Timeout
Transport == [kind |-> "transport", status |-> 0, body |-> NotJson]
Http(status, body) == [kind |-> "http", status |-> status, body |-> body]

ErrorBodies ==
    {JsonBody(Absent, ErrObj(m)) : m \in UserMsgs \cup {Absent}}
      \cup {JsonBody(Absent, NoError), JsonBody(Absent, ErrStr), NotJson}

\* what a POST to a creation endpoint may come back with
WriteResponses ==
    {Transport}
      \cup {Http(200, JsonBody(i, NoError)) : i \in Ids \cup {"", Absent}}
      \cup {Http(200, NotJson)}
      \cup {Http(400, b) : b \in ErrorBodies}
      \cup {Http(500, NotJson)}

\* entries of a listing; has_id = FALSE: the entry carries no "id" member
Entry(id) == [has_id |-> TRUE, id |-> id]
EntryNoId == [has_id |-> FALSE, id |-> Absent]
AccountIds == {"act_1", "act_2"}
Entries == {Entry(a) : a \in AccountIds} \cup {Entry(""), EntryNoId}
Listings == UNION {[1..n -> Entries] : n \in 0..MaxList}
ListBody(l) ==
    [json |-> TRUE, id |-> Absent, error |-> NoError, name |-> Absent,
     has_data |-> TRUE, data |-> l]

\* what a GET of /me/adaccounts or /me/accounts may come back with
ListResponses ==
    {Transport}
      \cup {Http(200, ListBody(l)) : l \in Listings}
      \cup {Http(200, JsonBody(Absent, NoError)), Http(200, NotJson)}
      \cup {Http(s, b) : s \in {400, 401, 500}, b \in {JsonBody(Absent, ErrObj(Absent)), NotJson}}

\* the account discovery answers the pipeline is run against: the handler reads
\* the first entry only, so one entry is as much as it can tell apart
AccountResponses == {r \in ListResponses : Len(r.body.data) <= 1}

Names == {"Alice"}
NameBody(n) ==
    [json |-> TRUE, id |-> "me", error |-> NoError, name |-> n,
     has_data |-> FALSE, data |-> <<>>]

\* what a GET of /me may come back with
IdentityResponses ==
    {Transport}
      \cup {Http(200, NameBody(n)) : n \in Names \cup {Absent}}
      \cup {Http(200, NotJson)}
      \cup {Http(s, b) : s \in {400, 401, 500}, b \in {JsonBody(Absent, ErrObj(Absent)), NotJson}}

\* what a GET of /{campaign_id} may come back with
DetailResponses ==
    {Transport}
      \cup {Http(200, JsonBody(i, NoError)) : i \in Ids}
      \cup {Http(200, NotJson)}
      \cup {Http(s, b) : s \in {400, 500}, b \in ErrorBodies}

-----------------------------------------------------------------------------
(* The requests library *)

\* Response.ok, which is also bool(response)
ResponseOk(resp) == resp.status < 400

\* str(e) of the HTTPError that raise_for_status() raises
StrHTTPError(resp) ==
    CASE resp.status = 400 -> "400 Client Error: Bad Request for url"
      [] resp.status = 401 -> "401 Client Error: Unauthorized for url"
      [] OTHER -> "500 Server Error: Internal Server Error for url"

StrJSONDecodeError == "Expecting value: line 1 column 1 (char 0)"
StrConnectionError == "Connection aborted"
StrUnboundLocal == "local variable 'response' referenced before assignment"
StrAttributeError == "'str' object has no attribute 'get'"
StrKeyErrorId == "'id'"

\* Outcome of the try-body's request: which RequestException, if any, reaches
\* the except clause.  requests >= 2.27: Response.json() raises
\* requests.exceptions.JSONDecodeError, a RequestException.
RequestException(resp) ==
    CASE resp.kind = "transport" -> [caught |-> TRUE, str |-> StrConnectionError]
      [] ~ResponseOk(resp) -> [caught |-> TRUE, str |-> StrHTTPError(resp)]
      [] ~resp.body.json -> [caught |-> TRUE, str |-> StrJSONDecodeError]
      [] OTHER -> [caught |-> FALSE, str |-> ""]

-----------------------------------------------------------------------------
(* Outcomes of a Python call *)

NoExc == [type |-> "", msg |-> ""]
Ret(v) == [raised |-> FALSE, value |-> v, exc |-> NoExc]
Raise(t, m) == [raised |-> TRUE, value |-> None, exc |-> [type |-> t, msg |-> m]]

\* one HTTP exchange as the network sees it
Exchange(method, op, url, token, data, resp) ==
    [method |-> method, op |-> op, url |-> url, access_token |-> token,
     data |-> data, resp |-> resp]

Done(sent, result) == [sent |-> sent, result |-> result]

-----------------------------------------------------------------------------
(* src/ads_api/meta_ads.py *)

BASE_URL == "https://graph.facebook.com/v22.0"

\* check_api_access: returns (success, message); the result record carries
\* the pair as ok / message.
Pair(ok, message) == [raised |-> FALSE, ok |-> ok, message |-> message, exc |-> NoExc]
RaisePair(t, m) == [raised |-> TRUE, ok |-> FALSE, message |-> "", exc |-> [type |-> t, msg |-> m]]

check_api_access(access_token, resp) ==
    LET url == BASE_URL \o "/me"
        params == [fields |-> "id,name"]
        e == RequestException(resp)
        result ==
            IF ~e.caught
            THEN Pair(TRUE, "Connected as " \o Get(resp.body.name, "Unknown"))
            \* except clause: reads response.status_code; response is unbound
            \* when requests.get itself raised
            ELSE IF resp.kind = "transport"
            THEN RaisePair("UnboundLocalError", StrUnboundLocal)
            ELSE IF resp.status = 401
            THEN Pair(FALSE, "Invalid access token")
            ELSE Pair(FALSE, "API connection error: " \o e.str)
    IN Done(<<Exchange("GET", "identity", url, access_token, params, resp)>>, result)

\* FirstEntryId reading the last entry of the listing instead of the first
FirstEntryId_Last(body) ==
    IF body.has_data /\ Len(body.data) > 0
    THEN IF body.data[Len(body.data)].has_id
         THEN Ret(body.data[Len(body.data)].id)
         ELSE Raise("KeyError", StrKeyErrorId)
    ELSE Ret(None)

\* the first entry of a listing, as lines 60-64 of get_ad_account_id and
\* lines 115-119 of get_page_id read it
FirstEntryId(body) ==
    IF body.has_data /\ Len(body.data) > 0
    THEN IF body.data[1].has_id
         THEN Ret(body.data[1].id)
         ELSE Raise("KeyError", StrKeyErrorId)
    ELSE Ret(None)

\* get_ad_account_id raising on a failed request, as the creation calls do,
\* instead of returning None
get_ad_account_id_Raising(access_token, resp) ==
    LET url == BASE_URL \o "/me/adaccounts"
        params == [fields |-> "id,name"]
        e == RequestException(resp)
        result == IF e.caught
                  THEN Raise("Exception", "Failed to get ad account - " \o e.str)
                  ELSE FirstEntryId(resp.body)
    IN Done(<<Exchange("GET", "adaccounts", url, access_token, params, resp)>>, result)

get_ad_account_id(access_token, resp) ==
    LET url == BASE_URL \o "/me/adaccounts"
        params == [fields |-> "id,name"]
        e == RequestException(resp)
        result == IF e.caught THEN Ret(None) ELSE FirstEntryId(resp.body)
    IN Done(<<Exchange("GET", "adaccounts", url, access_token, params, resp)>>, result)

\* ErrorUserMsg reading the error object's "message" member, which the
\* modelled bodies do not carry, instead of "error_user_msg"
ErrorUserMsg_MessageKey(resp) ==
    IF resp.kind = "transport"
    THEN Raise("UnboundLocalError", StrUnboundLocal)
    ELSE IF ~resp.body.json
    THEN Raise("JSONDecodeError", StrJSONDecodeError)
    ELSE IF resp.body.error.kind # "object"
    THEN Raise("AttributeError", StrAttributeError)
    ELSE Ret("")

\* response.json().get('error', 'Unknown Error').get('error_user_msg', '')
\* as the except clauses evaluate it
ErrorUserMsg(resp) ==
    IF resp.kind = "transport"
    THEN Raise("UnboundLocalError", StrUnboundLocal)
    ELSE IF ~resp.body.json
    THEN Raise("JSONDecodeError", StrJSONDecodeError)
    ELSE IF resp.body.error.kind # "object"
    THEN Raise("AttributeError", StrAttributeError)
    ELSE Ret(Get(resp.body.error.error_user_msg, ""))

\* hasattr(e, "response") and e.response: the HTTPError carries the response,
\* whose truth value is Response.ok
EResponseTruthy(resp) == resp.kind = "http" /\ ResponseOk(resp)

ResponseText(resp) == IF resp.body.json THEN "{...}" ELSE "<html>"

\* ComposeFailure returning None instead of raising, as the two lookups do
ComposeFailure_Swallowed(failed, resp, e) == Ret(None)

\* the except clause shared in shape by the five operations: the composed
\* failure, or whatever building its message raises
ComposeFailure(failed, resp, e) ==
    LET m == ErrorUserMsg(resp)
        error_msg == failed \o " - " \o m.value \o "\n\nError Detail:\n" \o e.str
    IN IF m.raised
       THEN m
       ELSE Raise("Exception",
                  IF EResponseTruthy(resp)
                  THEN error_msg \o " - " \o ResponseText(resp)
                  ELSE error_msg)

\* objective_mapping handing an objective it does not know to the platform as is
objective_mapping_Passthrough(objective) ==
    CASE objective = "AWARENESS" -> "BRAND_AWARENESS"
      [] objective = "CONSIDERATION" -> "OUTCOME_TRAFFIC"
      [] objective = "CONVERSIONS" -> "CONVERSIONS"
      [] OTHER -> objective

\* objective_mapping.get(objective, "OUTCOME_TRAFFIC"), lines 91-97
objective_mapping(objective) ==
    CASE objective = "AWARENESS" -> "BRAND_AWARENESS"
      [] objective = "CONSIDERATION" -> "OUTCOME_TRAFFIC"
      [] objective = "CONVERSIONS" -> "CONVERSIONS"
      [] OTHER -> "OUTCOME_TRAFFIC"

create_campaign(access_token, ad_account_id, name, objective, status, resp) ==
    LET meta_objective == objective_mapping(objective)
        url == BASE_URL \o "/" \o ad_account_id \o "/campaigns"
        data == [name |-> name, objective |-> meta_objective, status |-> status,
                 special_ad_categories |-> <<>>]
        e == RequestException(resp)
        result ==
            IF ~e.caught
            THEN Ret(GetOrNone(resp.body.id))
            ELSE ComposeFailure("Failed to create campaign", resp, e)
    IN Done(<<Exchange("POST", "campaign", url, access_token, data, resp)>>, result)

\* int(daily_budget * 100), line 153: daily_budget is a float, 100 an int that
\* the multiplication converts to the float 100.0
budget_in_cents(daily_budget) == IntOfFloat(FloatTimes100(daily_budget))

ThirtyDays == 30 * 24 * 60 * 60

\* create_ad_set submitting ACTIVE whatever status it is given
create_ad_set_Active(access_token, ad_account_id, name, campaign_id, daily_budget, targeting, status, now, resp) ==
    LET url == BASE_URL \o "/" \o ad_account_id \o "/adsets"
        data == [name |-> name, campaign_id |-> campaign_id,
                 daily_budget |-> budget_in_cents(daily_budget),
                 optimization_goal |-> "LINK_CLICKS",
                 billing_event |-> "IMPRESSIONS",
                 bid_strategy |-> "LOWEST_COST_WITHOUT_CAP",
                 status |-> "ACTIVE", targeting |-> targeting,
                 start_time |-> now, end_time |-> now + ThirtyDays]
        e == RequestException(resp)
    IN Done(<<Exchange("POST", "adset", url, access_token, data, resp)>>,
            IF ~e.caught
            THEN Ret(GetOrNone(resp.body.id))
            ELSE ComposeFailure("Failed to create ad set", resp, e))

create_ad_set(access_token, ad_account_id, name, campaign_id, daily_budget, targeting, status, now, resp) ==
    LET url == BASE_URL \o "/" \o ad_account_id \o "/adsets"
        start_time == now
        end_time == start_time + ThirtyDays
        data == [name |-> name, campaign_id |-> campaign_id,
                 daily_budget |-> budget_in_cents(daily_budget),
                 optimization_goal |-> "LINK_CLICKS",
                 billing_event |-> "IMPRESSIONS",
                 bid_strategy |-> "LOWEST_COST_WITHOUT_CAP",
                 status |-> status, targeting |-> targeting,
                 start_time |-> start_time, end_time |-> end_time]
        e == RequestException(resp)
        result ==
            IF ~e.caught
            THEN Ret(GetOrNone(resp.body.id))
            ELSE ComposeFailure("Failed to create ad set", resp, e)
    IN Done(<<Exchange("POST", "adset", url, access_token, data, resp)>>, result)

\* create_ad_creative rejecting only a missing page_id key, not an empty value
create_ad_creative_AbsentOnly(access_token, ad_account_id, creative_data, resp) ==
    LET url == BASE_URL \o "/" \o ad_account_id \o "/adcreatives"
        title == Get(creative_data.title, "")
        page_id == Get(creative_data.page_id, "")
        data == [name |-> "Creative for " \o title,
                 object_story_spec |->
                   [page_id |-> page_id,
                    link_data |->
                      [message |-> Get(creative_data.body, ""),
                       link |-> Get(creative_data.website_url, ""),
                       name |-> title,
                       description |-> Get(creative_data.description, ""),
                       call_to_action |->
                         [type |-> Get(creative_data.call_to_action, "LEARN_MORE")],
                       image_hash |-> "4098e58bb25e54ff17283d7bf4f44fd6"]]]
        e == RequestException(resp)
    IN IF creative_data.page_id = Absent
       THEN Done(<<>>, Raise("ValueError",
                             "Facebook Page ID is required to create an ad creative"))
       ELSE Done(<<Exchange("POST", "creative", url, access_token, data, resp)>>,
                 IF ~e.caught
                 THEN Ret(GetOrNone(resp.body.id))
                 ELSE ComposeFailure("Failed to create ad creative", resp, e))

create_ad_creative(access_token, ad_account_id, creative_data, resp) ==
    LET url == BASE_URL \o "/" \o ad_account_id \o "/adcreatives"
        title == Get(creative_data.title, "")
        body == Get(creative_data.body, "")
        description == Get(creative_data.description, "")
        website_url == Get(creative_data.website_url, "")
        call_to_action == Get(creative_data.call_to_action, "LEARN_MORE")
        page_id == Get(creative_data.page_id, "")
        data == [name |-> "Creative for " \o title,
                 object_story_spec |->
                   [page_id |-> page_id,
                    link_data |->
                      [message |-> body, link |-> website_url, name |-> title,
                       description |-> description,
                       call_to_action |-> [type |-> call_to_action],
                       image_hash |-> "4098e58bb25e54ff17283d7bf4f44fd6"]]]
        e == RequestException(resp)
    IN IF ~Truthy(page_id)
       THEN Done(<<>>, Raise("ValueError",
                             "Facebook Page ID is required to create an ad creative"))
       ELSE Done(<<Exchange("POST", "creative", url, access_token, data, resp)>>,
                 IF ~e.caught
                 THEN Ret(GetOrNone(resp.body.id))
                 ELSE ComposeFailure("Failed to create ad creative", resp, e))

\* create_ad with the two parent ids put in each other's place
create_ad_SwappedIds(access_token, ad_account_id, name, ad_set_id, creative_data, status, resp1, resp2) ==
    LET creative == create_ad_creative(access_token, ad_account_id, creative_data, resp1)
        creative_id == creative.result.value
        url == BASE_URL \o "/" \o ad_account_id \o "/ads"
        data == [name |-> name, adset_id |-> creative_id,
                 creative |-> [creative_id |-> ad_set_id], status |-> status]
        e == RequestException(resp2)
    IN IF creative.result.raised
       THEN creative
       ELSE Done(creative.sent \o <<Exchange("POST", "ad", url, access_token, data, resp2)>>,
                 IF ~e.caught
                 THEN Ret(GetOrNone(resp2.body.id))
                 ELSE ComposeFailure("Failed to create ad", resp2, e))

\* create_ad deleting the creative again when the ad write fails
create_ad_Rollback(access_token, ad_account_id, name, ad_set_id, creative_data, status, resp1, resp2) ==
    LET creative == create_ad_creative(access_token, ad_account_id, creative_data, resp1)
        creative_id == creative.result.value
        url == BASE_URL \o "/" \o ad_account_id \o "/ads"
        data == [name |-> name, adset_id |-> ad_set_id,
                 creative |-> [creative_id |-> creative_id], status |-> status]
        e == RequestException(resp2)
        ad == Exchange("POST", "ad", url, access_token, data, resp2)
        undo == Exchange("DELETE", "creative", BASE_URL \o "/" \o creative_id, access_token,
                         EmptyDict, Http(200, JsonBody(Absent, NoError)))
    IN IF creative.result.raised
       THEN creative
       ELSE IF ~e.caught
       THEN Done(creative.sent \o <<ad>>, Ret(GetOrNone(resp2.body.id)))
       ELSE Done(creative.sent \o <<ad, undo>>,
                 ComposeFailure("Failed to create ad", resp2, e))

\* resp1 answers the creative write, resp2 the ad write
create_ad(access_token, ad_account_id, name, ad_set_id, creative_data, status, resp1, resp2) ==
    LET creative == create_ad_creative(access_token, ad_account_id, creative_data, resp1)
        creative_id == creative.result.value
        url == BASE_URL \o "/" \o ad_account_id \o "/ads"
        data == [name |-> name, adset_id |-> ad_set_id,
                 creative |-> [creative_id |-> creative_id], status |-> status]
        e == RequestException(resp2)
    IN IF creative.result.raised
       THEN creative
       ELSE Done(creative.sent \o <<Exchange("POST", "ad", url, access_token, data, resp2)>>,
                 IF ~e.caught
                 THEN Ret(GetOrNone(resp2.body.id))
                 ELSE ComposeFailure("Failed to create ad", resp2, e))

get_campaign_details(access_token, campaign_id, resp) ==
    LET url == BASE_URL \o "/" \o campaign_id
        params == [fields |-> "id,name,objective,status,created_time,updated_time"]
        e == RequestException(resp)
        result ==
            IF ~e.caught
            THEN Ret(GetOrNone(resp.body.id))
            ELSE ComposeFailure("Failed to get campaign details", resp, e)
    IN Done(<<Exchange("GET", "details", url, access_token, params, resp)>>, result)

-----------------------------------------------------------------------------
(* src/ads_api/utils.py *)

\* The values format_targeting_spec tests with isinstance carry their Python
\* type in the input dictionary: a list, or a str.
PyList(items) == [type |-> "list", items |-> items]
PyStr(s) == [type |-> "str", str |-> s]
\* isinstance(v, list)
IsList(v) == v.type = "list"

\* geo_locations built from a flat locations list that degrades a list with a
\* malformed entry to its well-formed entries instead of to the empty list
CountriesOf_KeepValid(locations) ==
    SelectSeq(locations, LAMBDA loc : Len(loc) = 2)

\* locations if all(len(loc) == 2 for loc in locations) else [], line 77
CountriesOf(locations) ==
    IF \A i \in 1..Len(locations) : Len(locations[i]) = 2 THEN locations ELSE <<>>

\* what unpacking  interest_id, interest_name = entry  raises for an entry
\* that is not a pair
StrUnpackError(entry) ==
    IF Len(entry) < 2
    THEN "not enough values to unpack (expected 2, got "
           \o (IF Len(entry) = 0 THEN "0" ELSE "1") \o ")"
    ELSE "too many values to unpack (expected 2)"

\* format_targeting_spec, lines 43-89: the keys of targeting_spec are added
\* one by one; unpacking an interests entry that is not a pair raises
format_targeting_spec(targeting_data) ==
    LET has(k) == k \in DOMAIN targeting_data
        ages == [k \in {"age_min", "age_max"} \cap DOMAIN targeting_data |-> targeting_data[k]]
        genders ==
            IF has("genders") /\ IsList(targeting_data.genders)
                 /\ Len(targeting_data.genders.items) > 0
            THEN [genders |-> targeting_data.genders.items] ELSE EmptyDict
        geo ==
            IF has("geo_locations")
            THEN [geo_locations |-> targeting_data.geo_locations]
            ELSE IF has("locations") /\ IsList(targeting_data.locations)
                      /\ Len(targeting_data.locations.items) > 0
            THEN [geo_locations |-> [countries |-> CountriesOf(targeting_data.locations.items),
                                     cities |-> <<>>, regions |-> <<>>]]
            ELSE EmptyDict
        listed == has("interests") /\ IsList(targeting_data.interests)
        pairs == targeting_data.interests.items
        interests ==
            IF listed
            THEN [interests |-> [i \in 1..Len(pairs) |-> [id |-> pairs[i][1], name |-> pairs[i][2]]]]
            ELSE EmptyDict
        odd == {i \in 1..Len(pairs) : Len(pairs[i]) # 2}
    IN IF listed /\ odd # {}
       THEN Raise("ValueError", StrUnpackError(pairs[CHOOSE i \in odd : \A j \in odd : i <= j]))
       ELSE Ret(ages @@ genders @@ geo @@ interests)

get_page_id(access_token, resp) ==
    LET url == "https://graph.facebook.com/v18.0/me/accounts"
        params == [fields |-> "id,name"]
        e == RequestException(resp)
        result == IF e.caught THEN Ret(None) ELSE FirstEntryId(resp.body)
    IN Done(<<Exchange("GET", "pages", url, access_token, params, resp)>>, result)

-----------------------------------------------------------------------------
(* src/llm_handler.py *)

required_fields == <<"headline", "primary_text", "description", "image_description">>

\* validate_content leaving the loop after the first required field
validate_content_FirstFieldOnly(content) ==
    IF required_fields[1] \in DOMAIN content
    THEN Ret(None)
    ELSE Raise("ValueError",
               "Generated content is missing required field: " \o required_fields[1])

\* validate_content: the first required field missing from content, if any
validate_content(content) ==
    LET missing == {i \in 1..Len(required_fields) : required_fields[i] \notin DOMAIN content}
        first == CHOOSE i \in missing : \A j \in missing : i <= j
    IN IF missing = {}
       THEN Ret(None)
       ELSE Raise("ValueError",
                  "Generated content is missing required field: " \o required_fields[first])

\* llm.ok: the completion call returned; llm.parses: json.loads or
\* extract_json_from_text produced a dict; llm.content: that dict
generate_campaign_content(api_key, llm) ==
    IF api_key = ""
    THEN Raise("ValueError",
               "TogetherAI API key not found. Please set the TOGETHER_API_KEY environment variable.")
    ELSE IF ~llm.ok
    THEN Raise("Exception", "Error generating campaign content: " \o "Connection error.")
    ELSE IF ~llm.parses
    THEN Raise("Exception", "Error generating campaign content: "
                              \o "Could not extract valid JSON from LLM response")
    ELSE IF validate_content(llm.content).raised
    THEN Raise("Exception", "Error generating campaign content: "
                              \o validate_content(llm.content).exc.msg)
    ELSE [raised |-> FALSE, value |-> llm.content, exc |-> NoExc]

-----------------------------------------------------------------------------
(* src/main.py: inputs of the form and the sidebar *)

\* business name, product or service, key selling points as typed into the form
RequiredInputs ==
    {<<"Acme", "Widget", "Fast">>, <<"", "Widget", "Fast">>,
     <<"Acme", "", "Fast">>, <<"Acme", "Widget", "">>}

Tokens == {"", "EAAB-token"}
PageIds == {"", "1234567890"}
ApiKeys == {"", "tg-key"}

COUNTRY_ISO_MAPPING(country) ==
    CASE country = "USA" -> "US"
      [] country = "UK" -> "GB"
      [] country = "India" -> "IN"
      [] OTHER -> "CA"

Objectives == {"AWARENESS", "CONSIDERATION", "CONVERSIONS"}
GenderSelections == {<<>>, <<"FEMALE", "MALE">>}
CountrySelections == {{"USA"}}
\* the number input's value, a float: 85.00 as typed
DailyBudgets == {FloatOfHundredths(8500)}
Times == {1700000000}

\* list(set(...)) of the mapped selection: every order of the distinct codes
Orderings(S) ==
    {q \in UNION {[1..n -> S] : n \in {Cardinality(S)}} :
        \A i, j \in 1..Len(q) : i # j => q[i] # q[j]}

ContentText == [k \in {"headline", "primary_text", "description", "image_description", "cta"}
                  |-> "text of " \o k]
ContentKeySets ==
    {{"headline", "primary_text", "description", "image_description"},
     {"headline", "primary_text", "description", "image_description", "cta"},
     {"primary_text", "description", "image_description"},
     {"headline", "primary_text", "description"},
     {}}
LLMOutcomes ==
    {[ok |-> FALSE, parses |-> FALSE, content |-> EmptyDict],
     [ok |-> TRUE, parses |-> FALSE, content |-> EmptyDict]}
      \cup {[ok |-> TRUE, parses |-> TRUE, content |-> [k \in K |-> ContentText[k]]] :
              K \in ContentKeySets}

-----------------------------------------------------------------------------
(* src/main.py: session state and handlers *)

NoRun == [meta_access_token |-> "", facebook_page_id |-> "", ad_account_id |-> None,
          campaign_id |-> None, ad_set_id |-> None]
NoCall == [op |-> "none", args |-> EmptyDict, result |-> Ret(None)]
Show(kind, msg) == [kind |-> kind, msg |-> msg]

Init ==
    /\ campaign_created = FALSE
    /\ campaign_details = EmptyDict
    /\ generated_content = EmptyDict
    /\ pc = "ready"
    /\ run = NoRun
    /\ reqs = <<>>
    /\ ui = Show("none", "")
    /\ call = NoCall

\* the "Generate Campaign" form submission, lines 147-195
GenerateCampaign ==
    /\ pc = "ready"
    /\ \E form \in RequiredInputs, api_key \in ApiKeys, llm \in LLMOutcomes :
         LET business_name == form[1]
             product_or_service == form[2]
             key_selling_points == form[3]
             r == generate_campaign_content(api_key, llm)
         IN IF business_name = "" \/ product_or_service = "" \/ key_selling_points = ""
            THEN /\ ui' = Show("error", "Please fill in all required fields")
                 /\ UNCHANGED <<generated_content, campaign_details>>
            ELSE IF r.raised
            THEN /\ ui' = Show("error", "Error generating campaign content: " \o r.exc.msg)
                 /\ UNCHANGED <<generated_content, campaign_details>>
            ELSE \E campaign_objective \in Objectives, target_genders \in GenderSelections,
                    selection \in CountrySelections, daily_budget \in DailyBudgets :
                  \E target_locations \in Orderings({COUNTRY_ISO_MAPPING(c) : c \in selection}) :
                    /\ generated_content' = r.value
                    /\ campaign_details' =
                         [campaign_name |-> business_name \o " Campaign",
                          campaign_objective |-> campaign_objective,
                          daily_budget |-> daily_budget,
                          website_url |-> "https://acme.example",
                          call_to_action |-> "LEARN_MORE",
                          target_audience |->
                            [age_min |-> 25, age_max |-> 45,
                             genders |-> IF target_genders # <<>>
                                         THEN target_genders[1] ELSE "ALL",
                             locations |-> target_locations]]
                    /\ ui' = Show("success", "Campaign content generated successfully!")
    /\ reqs' = <<>>
    /\ UNCHANGED <<campaign_created, pc, run, call>>

\* the "Check Meta API Connection" button, lines 84-92
CheckConnection ==
    /\ pc = "ready"
    /\ \E meta_access_token \in Tokens, resp \in IdentityResponses :
         LET r == check_api_access(meta_access_token, resp)
         IN IF meta_access_token = ""
            THEN /\ ui' = Show("warning", "Please enter a Meta access token first")
                 /\ reqs' = <<>>
            ELSE /\ reqs' = r.sent
                 /\ ui' = IF r.result.raised
                          THEN Show("exception", r.result.exc.type \o ": " \o r.result.exc.msg)
                          ELSE IF r.result.ok
                          THEN Show("success", "Connected successfully! " \o r.result.message)
                          ELSE Show("error", "Connection failed: " \o r.result.message)
    /\ UNCHANGED <<campaign_created, campaign_details, generated_content, pc, run, call>>

\* the except clause showing the error and letting the failed step run again
Failed_Retry(e) ==
    /\ ui' = Show("error", "Error creating campaign: " \o e.msg)
    /\ UNCHANGED <<pc, run, campaign_created, campaign_details, generated_content>>

\* the except clause keeping the ids of what the run created so far
Failed_StoresPartial(e) ==
    /\ ui' = Show("error", "Error creating campaign: " \o e.msg)
    /\ pc' = "ready"
    /\ run' = NoRun
    /\ campaign_details' =
         [campaign_id |-> run.campaign_id, ad_set_id |-> run.ad_set_id] @@ campaign_details
    /\ UNCHANGED <<campaign_created, generated_content>>

\* the except clause of the handler, lines 289-290
Failed(e) ==
    /\ ui' = Show("error", "Error creating campaign: " \o e.msg)
    /\ pc' = "ready"
    /\ run' = NoRun
    /\ UNCHANGED <<campaign_created, campaign_details, generated_content>>

\* ClickCreate without the check of the page id at lines 223-224
ClickCreate_NoPageCheck ==
    /\ pc = "ready"
    /\ generated_content # EmptyDict
    /\ ~campaign_created
    /\ \E meta_access_token \in Tokens, facebook_page_id \in PageIds :
         IF meta_access_token = ""
         THEN /\ ui' = Show("error", "Please enter your Meta access token in the sidebar first")
              /\ UNCHANGED <<pc, run>>
         ELSE /\ pc' = "account"
              /\ run' = [NoRun EXCEPT !.meta_access_token = meta_access_token,
                                      !.facebook_page_id = facebook_page_id]
              /\ ui' = Show("spinner", "Creating campaign on Meta...")
    /\ reqs' = <<>>
    /\ UNCHANGED <<campaign_created, campaign_details, generated_content, call>>

\* the "Create Campaign on Meta" button, lines 219-227: the click and the
\* checks that precede the try block
ClickCreate ==
    /\ pc = "ready"
    /\ generated_content # EmptyDict
    /\ ~campaign_created
    /\ \E meta_access_token \in Tokens, facebook_page_id \in PageIds :
         IF meta_access_token = ""
         THEN /\ ui' = Show("error", "Please enter your Meta access token in the sidebar first")
              /\ UNCHANGED <<pc, run>>
         ELSE IF facebook_page_id = ""
         THEN /\ ui' = Show("error", "Please enter your Facebook Page ID in the sidebar first")
              /\ UNCHANGED <<pc, run>>
         ELSE /\ pc' = "account"
              /\ run' = [NoRun EXCEPT !.meta_access_token = meta_access_token,
                                      !.facebook_page_id = facebook_page_id]
              /\ ui' = Show("spinner", "Creating campaign on Meta...")
    /\ reqs' = <<>>
    /\ UNCHANGED <<campaign_created, campaign_details, generated_content, call>>

\* lines 228-233
StepAccount ==
    /\ pc = "account"
    /\ \E resp \in AccountResponses :
         LET r == get_ad_account_id(run.meta_access_token, resp)
         IN /\ reqs' = reqs \o r.sent
            /\ IF r.result.raised
               THEN Failed(r.result.exc)
               ELSE IF ~Truthy(r.result.value)
               THEN /\ ui' = Show("error",
                         "Could not retrieve ad account ID. Please check your Meta access token.")
                    /\ pc' = "ready"
                    /\ run' = NoRun
                    /\ UNCHANGED <<campaign_created, campaign_details, generated_content>>
               ELSE /\ run' = [run EXCEPT !.ad_account_id = r.result.value]
                    /\ pc' = "campaign"
                    /\ UNCHANGED <<campaign_created, campaign_details, generated_content, ui>>
    /\ UNCHANGED call

\* lines 234-241
StepCampaign ==
    /\ pc = "campaign"
    /\ \E resp \in WriteResponses :
         LET r == create_campaign(run.meta_access_token, run.ad_account_id,
                                  campaign_details.campaign_name,
                                  campaign_details.campaign_objective, "PAUSED", resp)
         IN /\ reqs' = reqs \o r.sent
            /\ IF r.result.raised
               THEN Failed(r.result.exc)
               ELSE /\ run' = [run EXCEPT !.campaign_id = r.result.value]
                    /\ pc' = "adset"
                    /\ UNCHANGED <<campaign_created, campaign_details, generated_content, ui>>
    /\ UNCHANGED call

\* the targeting dict built at lines 250-256
PipelineTargeting(target_audience) ==
    [age_min |-> target_audience.age_min,
     age_max |-> target_audience.age_max,
     genders |-> IF target_audience.genders = "MALE" THEN <<1>>
                 ELSE IF target_audience.genders = "FEMALE" THEN <<2>>
                 ELSE <<>>,
     geo_locations |-> [countries |-> target_audience.locations]]

\* lines 243-258
StepAdSet ==
    /\ pc = "adset"
    /\ \E resp \in WriteResponses, now \in Times :
         LET r == create_ad_set(run.meta_access_token, run.ad_account_id,
                                campaign_details.campaign_name \o " - Ad Set",
                                run.campaign_id, campaign_details.daily_budget,
                                PipelineTargeting(campaign_details.target_audience),
                                "PAUSED", now, resp)
         IN /\ reqs' = reqs \o r.sent
            /\ IF r.result.raised
               THEN Failed(r.result.exc)
               ELSE /\ run' = [run EXCEPT !.ad_set_id = r.result.value]
                    /\ pc' = "ad"
                    /\ UNCHANGED <<campaign_created, campaign_details, generated_content, ui>>
    /\ UNCHANGED call

\* the creative_data dict built at lines 266-274
PipelineCreativeData(content, details, facebook_page_id) ==
    [title |-> content.headline,
     body |-> content.primary_text,
     description |-> content.description,
     image_url |-> "https://placehold.co/600x400",
     website_url |-> details.website_url,
     call_to_action |-> details.call_to_action,
     page_id |-> facebook_page_id]

\* lines 260-287: create_ad, then the session state is stored
StepAd ==
    /\ pc = "ad"
    /\ \E resp1 \in WriteResponses, resp2 \in WriteResponses :
         LET r == create_ad(run.meta_access_token, run.ad_account_id,
                            campaign_details.campaign_name \o " - Ad",
                            run.ad_set_id,
                            PipelineCreativeData(generated_content, campaign_details,
                                                 run.facebook_page_id),
                            "PAUSED", resp1, resp2)
         IN /\ reqs' = reqs \o r.sent
            /\ IF r.result.raised
               THEN Failed(r.result.exc)
               ELSE /\ campaign_created' = TRUE
                    /\ campaign_details' =
                         [campaign_id |-> run.campaign_id, ad_set_id |-> run.ad_set_id,
                          ad_id |-> r.result.value] @@ campaign_details
                    /\ ui' = Show("success", "Campaign created successfully on Meta!")
                    /\ pc' = "ready"
                    /\ run' = NoRun
                    /\ UNCHANGED generated_content
    /\ UNCHANGED call

\* the keys the "Campaign Created!" panel reads from campaign_details, lines
\* 300-309, before the reset button is drawn; a missing one raises KeyError
\* and the script run ends there
DisplayedDetails ==
    {"campaign_name", "campaign_id", "ad_set_id", "ad_id", "campaign_objective", "daily_budget"}

\* the "Create Another Campaign" button, lines 293-323
CreateAnother ==
    /\ pc = "ready"
    /\ campaign_created
    /\ DisplayedDetails \subseteq DOMAIN campaign_details
    /\ campaign_created' = FALSE
    /\ campaign_details' = EmptyDict
    /\ generated_content' = EmptyDict
    /\ reqs' = <<>>
    /\ UNCHANGED <<pc, run, ui, call>>

Next ==
    \/ GenerateCampaign
    \/ CheckConnection
    \/ ClickCreate
    \/ StepAccount
    \/ StepCampaign
    \/ StepAdSet
    \/ StepAd
    \/ CreateAnother

Spec == Init /\ [][Next]_vars

-----------------------------------------------------------------------------
(* The client operations called on their own: call holds the arguments and    *)
(* the outcome, reqs the exchanges the call made.  The client keeps no state  *)
(* (no operation reads anything an earlier call wrote), so a behaviour is one *)
(* call made from the initial state.                                          *)

ClientPageIds == {Absent, "", " ", "1234567890"}
ClientObjectives == Objectives \cup {"SALES", "awareness", ""}
ClientStatuses == {"PAUSED", "ACTIVE"}
\* daily budgets a caller passes, written as decimal literals counted in
\* hundredths: 0.0, 0.01, 0.35, 1.0, 1.15, 85.0, 128.14, 1000.0
ClientBudgets == {0, 1, 35, 100, 115, 8500, 12814, 100000}

Outcome(op, args, r) == [op |-> op, args |-> args, result |-> r.result]

ClientCreativeData(page_id) ==
    [title |-> "text of headline", body |-> "text of primary_text",
     description |-> "text of description",
     image_url |-> "https://placehold.co/600x400",
     website_url |-> "https://acme.example", call_to_action |-> Absent,
     page_id |-> page_id]

\* the values a caller may give each key of format_targeting_spec's input;
\* index 0 stands for the key being left out
ClientAgeKeys == SUBSET {"age_min", "age_max"}
ClientGenders == <<PyList(<<>>), PyList(<<1>>), PyList(<<1, 2>>), PyStr("ALL")>>
ClientGeoLocations ==
    <<[countries |-> <<"GB">>], [countries |-> <<>>, cities |-> <<"2421836">>]>>
ClientLocations ==
    <<PyList(<<>>), PyList(<<"US">>), PyList(<<"US", "IN">>), PyList(<<"United States">>),
      PyList(<<"US", "India">>), PyStr("everywhere")>>
ClientInterests ==
    <<PyList(<<>>), PyList(<<<<"6003", "Yoga">>>>), PyList(<<<<"6003">>>>),
      PyList(<<<<"6003", "Yoga", "x">>>>), PyStr("yoga")>>

Optional(key, choices, i) == IF i = 0 THEN EmptyDict ELSE (key :> choices[i])

ClientTargeting ==
    [age_min |-> 25, age_max |-> 45, genders |-> <<>>,
     geo_locations |-> [countries |-> <<"US">>]]

CallCheckApiAccess ==
    /\ call = NoCall
    /\ \E access_token \in Tokens, resp \in IdentityResponses :
         LET r == check_api_access(access_token, resp)
         IN /\ call' = Outcome("check_api_access",
                               [access_token |-> access_token, resp |-> resp], r)
            /\ reqs' = r.sent
    /\ UNCHANGED <<campaign_created, campaign_details, generated_content, pc, run, ui>>

CallGetAdAccountId ==
    /\ call = NoCall
    /\ \E access_token \in Tokens, resp \in ListResponses :
         LET r == get_ad_account_id(access_token, resp)
         IN /\ call' = Outcome("get_ad_account_id",
                               [access_token |-> access_token, resp |-> resp], r)
            /\ reqs' = r.sent
    /\ UNCHANGED <<campaign_created, campaign_details, generated_content, pc, run, ui>>

CallGetPageId ==
    /\ call = NoCall
    /\ \E access_token \in Tokens, resp \in ListResponses :
         LET r == get_page_id(access_token, resp)
         IN /\ call' = Outcome("get_page_id",
                               [access_token |-> access_token, resp |-> resp], r)
            /\ reqs' = r.sent
    /\ UNCHANGED <<campaign_created, campaign_details, generated_content, pc, run, ui>>

CallCreateCampaign ==
    /\ call = NoCall
    /\ \E objective \in ClientObjectives, status \in ClientStatuses, resp \in WriteResponses :
         LET r == create_campaign("EAAB-token", "act_1", "Acme Campaign", objective,
                                  status, resp)
         IN /\ call' = Outcome("create_campaign",
                               [objective |-> objective, status |-> status, resp |-> resp], r)
            /\ reqs' = r.sent
    /\ UNCHANGED <<campaign_created, campaign_details, generated_content, pc, run, ui>>

CallCreateAdSet ==
    /\ call = NoCall
    /\ \E campaign_id \in Ids, literal \in ClientBudgets, status \in ClientStatuses,
          now \in Times, resp \in WriteResponses :
         LET daily_budget == FloatOfHundredths(literal)
             r == create_ad_set("EAAB-token", "act_1", "Acme Campaign - Ad Set",
                                campaign_id, daily_budget, ClientTargeting, status, now, resp)
         IN /\ call' = Outcome("create_ad_set",
                               [campaign_id |-> campaign_id, literal |-> literal,
                                daily_budget |-> daily_budget,
                                status |-> status, resp |-> resp], r)
            /\ reqs' = r.sent
    /\ UNCHANGED <<campaign_created, campaign_details, generated_content, pc, run, ui>>

CallCreateAdCreative ==
    /\ call = NoCall
    /\ \E page_id \in ClientPageIds, resp \in WriteResponses :
         LET r == create_ad_creative("EAAB-token", "act_1", ClientCreativeData(page_id), resp)
         IN /\ call' = Outcome("create_ad_creative",
                               [creative_data |-> ClientCreativeData(page_id),
                                resp |-> resp], r)
            /\ reqs' = r.sent
    /\ UNCHANGED <<campaign_created, campaign_details, generated_content, pc, run, ui>>

CallCreateAd ==
    /\ call = NoCall
    /\ \E ad_set_id \in Ids, page_id \in ClientPageIds,
          resp1 \in WriteResponses, resp2 \in WriteResponses :
         LET r == create_ad("EAAB-token", "act_1", "Acme Campaign - Ad", ad_set_id,
                            ClientCreativeData(page_id), "PAUSED", resp1, resp2)
         IN /\ call' = Outcome("create_ad",
                               [ad_set_id |-> ad_set_id,
                                creative_data |-> ClientCreativeData(page_id),
                                resp1 |-> resp1, resp2 |-> resp2], r)
            /\ reqs' = r.sent
    /\ UNCHANGED <<campaign_created, campaign_details, generated_content, pc, run, ui>>

CallGetCampaignDetails ==
    /\ call = NoCall
    /\ \E campaign_id \in Ids, resp \in DetailResponses :
         LET r == get_campaign_details("EAAB-token", campaign_id, resp)
         IN /\ call' = Outcome("get_campaign_details",
                               [campaign_id |-> campaign_id, resp |-> resp], r)
            /\ reqs' = r.sent
    /\ UNCHANGED <<campaign_created, campaign_details, generated_content, pc, run, ui>>

CallFormatTargetingSpec ==
    /\ call = NoCall
    /\ \E ages \in ClientAgeKeys, g \in 0..Len(ClientGenders), geo \in 0..Len(ClientGeoLocations),
          l \in 0..Len(ClientLocations), n \in 0..Len(ClientInterests) :
         LET targeting_data ==
                 [k \in ages |-> IF k = "age_min" THEN 25 ELSE 45]
                   @@ Optional("genders", ClientGenders, g)
                   @@ Optional("geo_locations", ClientGeoLocations, geo)
                   @@ Optional("locations", ClientLocations, l)
                   @@ Optional("interests", ClientInterests, n)
         IN call' = [op |-> "format_targeting_spec",
                     args |-> [targeting_data |-> targeting_data],
                     result |-> format_targeting_spec(targeting_data)]
    /\ reqs' = <<>>
    /\ UNCHANGED <<campaign_created, campaign_details, generated_content, pc, run, ui>>

ClientNext ==
    \/ CallFormatTargetingSpec
    \/ CallCheckApiAccess
    \/ CallGetAdAccountId
    \/ CallGetPageId
    \/ CallCreateCampaign
    \/ CallCreateAdSet
    \/ CallCreateAdCreative
    \/ CallCreateAd
    \/ CallGetCampaignDetails

ClientSpec == Init /\ [][ClientNext]_vars

-----------------------------------------------------------------------------
(* Properties *)

\* what the properties read off an exchange
IsCreation(x) == x.method = "POST"
Creations(log) == SelectSeq(log, IsCreation)
Ops(log) == [i \in 1..Len(log) |-> log[i].op]
\* the request was answered 2xx with a JSON body
Succeeded(x) == x.resp.kind = "http" /\ x.resp.status \in 200..299 /\ x.resp.body.json
\* the request was answered 2xx: the platform performed the write
Performed(x) == x.resp.kind = "http" /\ x.resp.status \in 200..299
\* the id member of the response body, null when the body has none
ReturnedId(x) == IF x.resp.body.id = Absent THEN None ELSE x.resp.body.id
IsPrefix(a, b) == Len(a) <= Len(b) /\ SubSeq(b, 1, Len(a)) = a
CreationOrder == <<"campaign", "adset", "creative", "ad">>

C1_LogOrdered ==
    LET c == Creations(reqs)
    IN /\ Len(c) <= Len(CreationOrder)
       /\ \A i \in 1..Len(c) :
            /\ c[i].op = CreationOrder[i]
            /\ i > 1 => Succeeded(c[i - 1])
       /\ pc # "ready" => \A i \in 1..Len(c) : Succeeded(c[i])

C1_RunStep ==
    /\ pc # "ready" => IsPrefix(reqs, reqs')
    /\ pc = "ready" => Creations(reqs') = <<>>

\* C1: in every run the creation requests are issued in the order campaign,
\* ad set, creative, ad; each is issued only after the one before it was
\* answered successfully; while a run is in progress every creation request so
\* far has succeeded, the run only appends to its exchanges, and once the run
\* is over (a step failed, or the ad was created) no handler step adds a
\* creation request to it.
C1_FixedOrder == [](C1_LogOrdered) /\ [][C1_RunStep]_vars

\* a run that issued all four creation requests, the last of which failed
C1_Witness ==
    /\ pc = "ready"
    /\ Ops(Creations(reqs)) = CreationOrder
    /\ ~Succeeded(Creations(reqs)[4])

\* C2: within a run, the ad-set request's campaign_id is the id the campaign
\* creation returned, the ad request's adset_id is the id the ad-set creation
\* returned, and the ad request's creative.creative_id is the id the creative
\* creation returned.
C2_IdsThreaded ==
    \A i, j \in 1..Len(reqs) :
        /\ (reqs[i].op = "campaign" /\ reqs[j].op = "adset")
              => reqs[j].data.campaign_id = ReturnedId(reqs[i])
        /\ (reqs[i].op = "adset" /\ reqs[j].op = "ad")
              => reqs[j].data.adset_id = ReturnedId(reqs[i])
        /\ (reqs[i].op = "creative" /\ reqs[j].op = "ad")
              => reqs[j].data.creative.creative_id = ReturnedId(reqs[i])

\* a run that reached the ad request with the campaign and the ad set given
\* different ids
C2_Witness ==
    /\ Ops(Creations(reqs)) = CreationOrder
    /\ ReturnedId(Creations(reqs)[1]) = IdPool[1]
    /\ ReturnedId(Creations(reqs)[2]) = IdPool[2]
    /\ ReturnedId(Creations(reqs)[3]) = IdPool[1]

RunSucceeded ==
    campaign_created /\ ui = Show("success", "Campaign created successfully on Meta!")

\* C3: when a run ends in success, the stored campaign_id, ad_set_id and ad_id
\* are non-empty identifiers, whatever 2xx bodies the platform returned.
C3_StoredIdsNonEmpty ==
    RunSucceeded =>
        \A k \in {"campaign_id", "ad_set_id", "ad_id"} :
            k \in DOMAIN campaign_details /\ Truthy(campaign_details[k])

\* C4: every campaign, ad-set and ad creation request of the pipeline carries
\* status PAUSED.
C4_AlwaysPaused ==
    \A i \in 1..Len(reqs) :
        reqs[i].op \in {"campaign", "adset", "ad"} => reqs[i].data.status = "PAUSED"

\* a run whose campaign, ad-set and ad requests were all issued
C4_Witness ==
    /\ campaign_created
    /\ {"campaign", "adset", "ad"} \subseteq {reqs[i].op : i \in 1..Len(reqs)}

BudgetTooLow(x) ==
    /\ x.op = "adset"
    /\ x.resp.kind = "http"
    /\ x.resp.status = 400
    /\ x.resp.body.json
    /\ x.resp.body.error.kind = "object"
    /\ x.resp.body.error.error_user_msg = "Budget too low"

\* C5: when the ad-set request is answered 400 with a structured error whose
\* error_user_msg is "Budget too low", the run is over with an error shown
\* whose text contains "Budget too low", and the run issued neither a creative
\* nor an ad request.
C5_BudgetTooLowHalts ==
    (\E i \in 1..Len(reqs) : BudgetTooLow(reqs[i])) =>
        /\ pc = "ready"
        /\ ~campaign_created
        /\ ui.kind = "error"
        /\ StartsWith(ui.msg, "Error creating campaign: ")
        /\ Contains(ui.msg, "Budget too low")
        /\ \A j \in 1..Len(reqs) : reqs[j].op \notin {"creative", "ad"}

C5_Witness == \E i \in 1..Len(reqs) : BudgetTooLow(reqs[i])

\* C6: check_api_access never raises: a 200 with a name gives (True, message
\* containing the name), a 401 gives (False, "Invalid access token"), any
\* other HTTP failure and a transport failure give (False, "API connection
\* error: ...").
C6_CheckAccessNeverRaises ==
    call.op = "check_api_access" =>
        LET resp == call.args.resp
            r == call.result
        IN /\ ~r.raised
           /\ (resp.kind = "http" /\ resp.status = 200 /\ resp.body.json
                 /\ resp.body.name # Absent)
                => (r.ok /\ Contains(r.message, resp.body.name))
           /\ (resp.kind = "http" /\ resp.status = 401)
                => (~r.ok /\ r.message = "Invalid access token")
           /\ (resp.kind = "transport" \/ resp.status \in {400, 500})
                => (~r.ok /\ StartsWith(r.message, "API connection error: "))

FailedText ==
    [create_campaign |-> "Failed to create campaign",
     create_ad_set |-> "Failed to create ad set",
     create_ad_creative |-> "Failed to create ad creative",
     create_ad |-> "Failed to create ad",
     get_campaign_details |-> "Failed to get campaign details"]

\* the request of the call that failed, if one did: the last exchange, answered
\* by a non-2xx response or by no response at all
RequestFailed ==
    /\ reqs # <<>>
    /\ LET x == reqs[Len(reqs)]
       IN x.resp.kind = "transport" \/ x.resp.status >= 400

\* C7: each of create_campaign, create_ad_set, create_ad_creative, create_ad
\* and get_campaign_details ends every failed request (non-2xx with a
\* structured error, non-2xx without an error object or without JSON, no
\* response at all) by raising one composed failure whose message starts with
\* the operation's "Failed to ..." text.
C7_ComposedFailure ==
    (call.op \in DOMAIN FailedText /\ RequestFailed) =>
        /\ call.result.raised
        /\ call.result.exc.type = "Exception"
        /\ StartsWith(call.result.exc.msg,
                      FailedText[IF call.op = "create_ad" /\ reqs[Len(reqs)].op = "creative"
                                 THEN "create_ad_creative" ELSE call.op])

\* C8: create_ad sends nothing but the creative write and then the ad write.
\* When it returns, both were sent and performed; when the ad write fails,
\* the creative write is the only one performed and nothing is sent after the
\* failed ad write (no delete, no rollback); when the creative write fails,
\* no ad write is sent.
C8_CreateAdWrites ==
    call.op = "create_ad" =>
        LET sent == Ops(reqs)
            done == Ops(SelectSeq(reqs, Performed))
        IN /\ \A i \in 1..Len(reqs) : reqs[i].method = "POST"
           /\ sent \in {<<>>, <<"creative">>, <<"creative", "ad">>}
           /\ ~call.result.raised => (sent = <<"creative", "ad">> /\ done = sent)
           /\ (Len(reqs) = 2 /\ ~Performed(reqs[2]))
                => (call.result.raised /\ done = <<"creative">>)
           /\ (Len(reqs) >= 1 /\ ~Succeeded(reqs[1])) => sent = <<"creative">>
           /\ (Truthy(Get(call.args.creative_data.page_id, ""))
                 /\ Succeeded([resp |-> call.args.resp1]))
                => sent = <<"creative", "ad">>

\* the ad write failed after the creative write had succeeded
C8_Witness ==
    /\ call.op = "create_ad"
    /\ Len(reqs) = 2
    /\ Succeeded(reqs[1])
    /\ ~Performed(reqs[2])
    /\ call.result.raised

\* C9: create_ad_creative raises the local validation failure with no request
\* sent if and only if page_id is empty or absent; with a non-empty page_id
\* it sends exactly the creative request.
C9_PageIdValidation ==
    call.op = "create_ad_creative" =>
        LET page_id == call.args.creative_data.page_id
            local == /\ call.result.raised
                     /\ call.result.exc.type = "ValueError"
                     /\ reqs = <<>>
        IN /\ local <=> page_id \in {"", Absent}
           /\ page_id \notin {"", Absent}
                => (Len(reqs) = 1 /\ reqs[1].op = "creative" /\ reqs[1].method = "POST"
                      /\ reqs[1].data.object_story_spec.page_id = page_id)

\* the validation failure on an empty page_id
C9_Witness ==
    /\ call.op = "create_ad_creative"
    /\ call.args.creative_data.page_id = ""
    /\ call.result.raised
    /\ reqs = <<>>

\* C10: get_ad_account_id and get_page_id return the id of the first listed
\* entry when the listing is non-empty (and its first entry carries an id),
\* and return None without raising when the list is empty, when the body has
\* no data list, when the response is non-2xx and when no response arrived.
C10_FirstOrAbsent ==
    call.op \in {"get_ad_account_id", "get_page_id"} =>
        LET resp == call.args.resp
            ok == resp.kind = "http" /\ resp.status = 200 /\ resp.body.json
            r == call.result
        IN /\ (ok /\ resp.body.has_data /\ Len(resp.body.data) > 0
                  /\ resp.body.data[1].has_id)
                => (~r.raised /\ r.value = resp.body.data[1].id)
           /\ (\/ ok /\ resp.body.has_data /\ resp.body.data = <<>>
               \/ ok /\ ~resp.body.has_data
               \/ resp.kind = "http" /\ resp.status >= 400
               \/ resp.kind = "transport")
                => (~r.raised /\ r.value = None)

\* a listing of two entries with different ids, answered by get_page_id
C10_Witness ==
    /\ call.op = "get_page_id"
    /\ ~call.result.raised
    /\ Len(call.args.resp.body.data) = 2
    /\ call.args.resp.body.data[1].has_id
    /\ call.args.resp.body.data[2].has_id
    /\ call.args.resp.body.data[1].id # call.args.resp.body.data[2].id
    /\ call.result.value = call.args.resp.body.data[1].id

\* C11: the objective create_campaign submits is BRAND_AWARENESS for AWARENESS,
\* OUTCOME_TRAFFIC for CONSIDERATION, CONVERSIONS for CONVERSIONS and
\* OUTCOME_TRAFFIC for every other input string, and the request carries an
\* empty special_ad_categories list.
C11_ObjectiveMapping ==
    call.op = "create_campaign" =>
        /\ Len(reqs) = 1
        /\ reqs[1].op = "campaign"
        /\ reqs[1].data.special_ad_categories = <<>>
        /\ reqs[1].data.objective =
             (IF call.args.objective = "AWARENESS" THEN "BRAND_AWARENESS"
              ELSE IF call.args.objective = "CONVERSIONS" THEN "CONVERSIONS"
              ELSE "OUTCOME_TRAFFIC")

\* a campaign request made for an objective outside the mapping table
C11_Witness ==
    /\ call.op = "create_campaign"
    /\ call.args.objective = "awareness"
    /\ Len(reqs) = 1
    /\ reqs[1].data.objective = "OUTCOME_TRAFFIC"

\* C12: for every daily budget B >= 0 given in major units, the daily_budget
\* create_ad_set submits is floor(B * 100) minor units.  B is the decimal the
\* caller wrote, literal / 100.
C12_BudgetFloor ==
    call.op = "create_ad_set" =>
        /\ Len(reqs) = 1
        /\ reqs[1].data.daily_budget = (call.args.literal * 100) \div 100

\* the interests of the input, when present and a list, are (id, name) pairs
InterestsArePairs(d) ==
    ("interests" \in DOMAIN d /\ IsList(d.interests))
        => \A i \in 1..Len(d.interests.items) : Len(d.interests.items[i]) = 2

\* C14: format_targeting_spec, given no geo_locations key and a non-empty
\* flat locations list, returns without raising, with geo_locations.countries
\* equal to that list when every entry has exactly two characters and to the
\* empty list otherwise, and with empty cities and regions; an explicit
\* geo_locations is returned verbatim, whatever locations holds.  (The inputs
\* are those whose interests, if listed, are pairs.)
C14_LocationsDegrade ==
    (call.op = "format_targeting_spec" /\ InterestsArePairs(call.args.targeting_data)) =>
        LET d == call.args.targeting_data
            r == call.result
        IN /\ ("geo_locations" \notin DOMAIN d /\ "locations" \in DOMAIN d
                  /\ IsList(d.locations) /\ Len(d.locations.items) > 0)
                => /\ ~r.raised
                   /\ "geo_locations" \in DOMAIN r.value
                   /\ r.value.geo_locations =
                        [countries |-> IF \E i \in 1..Len(d.locations.items) :
                                               Len(d.locations.items[i]) # 2
                                       THEN <<>> ELSE d.locations.items,
                         cities |-> <<>>, regions |-> <<>>]
           /\ "geo_locations" \in DOMAIN d
                => /\ ~r.raised
                   /\ "geo_locations" \in DOMAIN r.value
                   /\ r.value.geo_locations = d.geo_locations

\* a locations list with one well-formed and one malformed entry, degraded to
\* the empty country list
C14_Witness ==
    /\ call.op = "format_targeting_spec"
    /\ "geo_locations" \notin DOMAIN call.args.targeting_data
    /\ "locations" \in DOMAIN call.args.targeting_data
    /\ call.args.targeting_data.locations = PyList(<<"US", "India">>)
    /\ ~call.result.raised
    /\ call.result.value.geo_locations.countries = <<>>

\* the user's targeting input as the session stores it (target_audience,
\* main.py lines 185-190), as an input of format_targeting_spec
AudienceAsInput(target_audience) ==
    [age_min |-> target_audience.age_min, age_max |-> target_audience.age_max,
     genders |-> PyStr(target_audience.genders),
     locations |-> PyList(target_audience.locations)]

\* the same input with the gender choice already turned into the platform's
\* code list and the locations into a geo_locations structure
AudienceCodedAsInput(target_audience) ==
    [age_min |-> target_audience.age_min, age_max |-> target_audience.age_max,
     genders |-> PyList(IF target_audience.genders = "MALE" THEN <<1>>
                        ELSE IF target_audience.genders = "FEMALE" THEN <<2>>
                        ELSE <<>>),
     geo_locations |-> [countries |-> target_audience.locations]]

\* C13: the targeting the pipeline's ad-set request embeds is exactly what
\* format_targeting_spec returns for the user's targeting input (same keys,
\* same values; an empty gender selection gives no genders key), whether that
\* input is taken as the session stores it or with the gender and the
\* locations already coded.
C13_TargetingFormatted ==
    \A i \in 1..Len(reqs) :
        reqs[i].op = "adset" =>
            \/ reqs[i].data.targeting =
                 format_targeting_spec(AudienceAsInput(campaign_details.target_audience)).value
            \/ reqs[i].data.targeting =
                 format_targeting_spec(AudienceCodedAsInput(campaign_details.target_audience)).value

RequiredKeys == {required_fields[i] : i \in 1..Len(required_fields)}

\* C15 as claimed: the session's generated content, whenever one is stored,
\* has exactly the key set {headline, primary_text, description,
\* image_description}: content missing a key and content with an additional
\* key is never stored.
C15_ExactKeysStored ==
    generated_content # EmptyDict => DOMAIN generated_content = RequiredKeys

C15_RequiredKeysStored ==
    generated_content # EmptyDict => RequiredKeys \subseteq DOMAIN generated_content

C15_StoreStep ==
    (generated_content' # generated_content /\ generated_content' # EmptyDict)
        => /\ RequiredKeys \subseteq DOMAIN generated_content'
           /\ ui' = Show("success", "Campaign content generated successfully!")

\* C15 as amended: the session's generated content, whenever one is stored,
\* contains all four required keys, and new content is stored only by a
\* generation that reports success: content missing any of the four keys is
\* rejected and never stored.  Additional keys are not a reason for rejection.
C15_RequiredKeys == [](C15_RequiredKeysStored) /\ [][C15_StoreStep]_vars

\* content carrying the four keys and one more, stored as generated content
C15_Witness ==
    /\ RequiredKeys \subseteq DOMAIN generated_content
    /\ "cta" \in DOMAIN generated_content
    /\ ui = Show("success", "Campaign content generated successfully!")

\* the state of the pipeline of section 4.3, read off the session
PipelineState ==
    IF generated_content = EmptyDict THEN "Idle"
    ELSE IF campaign_created THEN "AdCreated"
    ELSE IF pc = "adset" THEN "CampaignCreated"
    ELSE IF pc = "ad" THEN "AdSetCreated"
    ELSE IF pc = "ready" /\ ui.kind = "error" /\ StartsWith(ui.msg, "Error creating campaign: ")
    THEN "Failed"
    ELSE "ContentGenerated"

NextPc == [account |-> "campaign", campaign |-> "adset", adset |-> "ad", ad |-> "ready"]

\* a step of a run in progress moves the pipeline one state forward, or ends
\* the run: in AdCreated from the last step, otherwise with an error shown
\* and nothing marked created
C16_Forward ==
    pc # "ready" =>
        \/ /\ pc # "ad"
           /\ pc' = NextPc[pc]
           /\ ~campaign_created'
           /\ IsPrefix(reqs, reqs')
        \/ /\ pc = "ad"
           /\ pc' = "ready"
           /\ campaign_created'
           /\ PipelineState' = "AdCreated"
        \/ /\ pc' = "ready"
           /\ ~campaign_created'
           /\ ui'.kind = "error"

\* no request removes or changes a resource: every exchange is a read, or a
\* write that creates
C16_NoRollback ==
    \A i \in 1..Len(reqs) :
        \/ reqs[i].method = "GET"
        \/ reqs[i].method = "POST" /\ reqs[i].op \in {"campaign", "adset", "creative", "ad"}

\* once Failed with a creation request issued, no step starts a run for the
\* same generated content
C16_NoRetryStep ==
    (PipelineState = "Failed" /\ Creations(reqs) # <<>> /\ generated_content' = generated_content)
        => pc' = "ready"

\* C16 as claimed: the pipeline state only moves forward along Idle,
\* ContentGenerated, CampaignCreated, AdSetCreated, AdCreated, or into
\* Failed; after Failed there is no retry (no run and so no creation request
\* is started again for that generated content) and no rollback (no request
\* removes a resource created earlier).
C16_NoRetryNoRollback ==
    [](C16_NoRollback) /\ [][C16_Forward /\ C16_NoRetryStep]_vars

\* C16 as amended: within a run the pipeline state only moves forward, one
\* state per step, or into Failed, which ends the run; no request removes a
\* resource created earlier.  (Nothing keeps the user from starting a new run
\* for the same generated content after Failed.)
C16_ForwardNoRollback == [](C16_NoRollback) /\ [][C16_Forward]_vars

\* a run that failed at the ad-set step, after the campaign was created
C16_Witness ==
    /\ PipelineState = "Failed"
    /\ Ops(Creations(reqs)) = <<"campaign", "adset">>

PageIdRequired == Show("error", "Please enter your Facebook Page ID in the sidebar first")

\* C17: a click on "Create Campaign on Meta" with an empty page id ends at
\* once with the page-id error shown and no request issued (no account
\* lookup, campaign, ad set, creative or ad request); every run that is in
\* progress, and so every run that issues a request, has a non-empty page id,
\* which is the page id of its creative request.
C17_EmptyPageIdNoRequest ==
    /\ ui = PageIdRequired => (pc = "ready" /\ reqs = <<>> /\ ~campaign_created)
    /\ pc # "ready" => run.facebook_page_id # ""
    /\ \A i \in 1..Len(reqs) :
         reqs[i].op = "creative" => reqs[i].data.object_story_spec.page_id # ""

\* the click with content generated, a token entered and the page id empty
C17_Witness ==
    /\ ui = PageIdRequired
    /\ generated_content # EmptyDict
    /\ reqs = <<>>

AccountMissing ==
    Show("error", "Could not retrieve ad account ID. Please check your Meta access token.")

\* the account lookup x yields absent: no response, a non-2xx response, a body
\* that is not JSON or has no data list, an empty list, or a first entry
\* whose id is empty
LookupAbsent(x) ==
    /\ x.op = "adaccounts"
    /\ \/ x.resp.kind = "transport"
       \/ x.resp.status >= 400
       \/ ~x.resp.body.json
       \/ ~x.resp.body.has_data
       \/ Len(x.resp.body.data) = 0
       \/ x.resp.body.data[1].has_id /\ x.resp.body.data[1].id = ""

C18_AbsentShown ==
    ui = AccountMissing =>
        (pc = "ready" /\ ~campaign_created /\ Creations(reqs) = <<>>)

C18_LookupStep ==
    (pc = "account" /\ reqs' # <<>> /\ LookupAbsent(reqs'[Len(reqs')])) =>
        /\ ui' = AccountMissing
        /\ pc' = "ready"
        /\ Creations(reqs') = <<>>
        /\ ~campaign_created'
        /\ UNCHANGED <<campaign_created, generated_content, campaign_details>>

\* C18: when the account lookup of a run yields absent, the run ends with the
\* error "Could not retrieve ad account ID. Please check your Meta access
\* token." shown and no creation request issued; the session stays
\* not-created and its generated content and campaign details are unchanged.
C18_AbsentAccount == [](C18_AbsentShown) /\ [][C18_LookupStep]_vars

\* a run ended by a lookup that was answered with an empty list
C18_Witness ==
    /\ ui = AccountMissing
    /\ generated_content # EmptyDict
    /\ Len(reqs) = 1
    /\ reqs[1].resp.kind = "http"
    /\ reqs[1].resp.status = 200
    /\ reqs[1].resp.body.has_data
    /\ reqs[1].resp.body.data = <<>>

StoredIds == {"campaign_id", "ad_set_id", "ad_id"}

C19_Flag ==
    /\ campaign_created => pc = "ready"
    /\ ~campaign_created => StoredIds \cap DOMAIN campaign_details = {}

C19_Step ==
    /\ (~campaign_created /\ campaign_created')
         => /\ pc = "ad"
            /\ Ops(Creations(reqs')) = CreationOrder
            /\ \A i \in 1..Len(reqs') : IsCreation(reqs'[i]) => Succeeded(reqs'[i])
    /\ campaign_created
         => /\ Creations(reqs') = <<>>
            /\ pc' = "ready"
            /\ campaign_created' \/ (generated_content' = EmptyDict /\ campaign_details' = EmptyDict)
    /\ (pc # "ready" /\ pc' = "ready" /\ ui'.kind = "error")
         => /\ ~campaign_created'
            /\ StoredIds \cap DOMAIN campaign_details' = {}

\* C19: over any sequence of generate, check, create and reset actions,
\* campaign_created becomes true only in the step in which the ad creation of
\* a run returns, after that run's campaign and ad-set creations returned;
\* while it is true no run is in progress or started and no creation request
\* is issued, and it becomes false again only by the reset, which empties the
\* session; a failed run leaves it false, and while it is false no
\* campaign_id, ad_set_id or ad_id is stored.
C19_CreatedFlag == [](C19_Flag) /\ [][C19_Step]_vars

\* content generated again while the flag is true
C19_Witness ==
    /\ campaign_created
    /\ ui = Show("success", "Campaign content generated successfully!")
    /\ "campaign_id" \notin DOMAIN campaign_details

====
